---- MODULE Spec2Model ----
(***************************************************************************)
(* Model of claude_profiles.py: project detection (detect_project,         *)
(* detect_variant, cmd_detect) and profile application (load_profile,      *)
(* apply_profile).                                                         *)
(*                                                                         *)
(* Representation.  A text is a sequence of tokens, "" is <<>> and + is    *)
(* \o.  A path is a sequence of segments and a segment (a file name) is a  *)
(* sequence of tokens, so that a glob pattern is matched against a name    *)
(* token by token ("*" matches any run of tokens inside one segment).  A   *)
(* JSON object is a function from its keys; a key the document lacks is    *)
(* outside the DOMAIN.  None is a string no name of the model equals.  A   *)
(* file that may be missing is a sequence of length 0 (missing) or 1 (its  *)
(* content); a JSON file holds the document that its text encodes.         *)
(***************************************************************************)
EXTENDS Integers, Sequences, FiniteSets, TLC

VARIABLES pc, args, dir, listing, fs, profile, loaded, variant, variant_config,
          mcp_servers, claude_md, rules, skills, settings, detected, out, exit_code,
          report

vars == <<pc, args, dir, listing, fs, profile, loaded, variant, variant_config,
          mcp_servers, claude_md, rules, skills, settings, detected, out, exit_code,
          report>>

None == "<None>"

EmptyMap == [k \in {} |-> 0]

Range(s) == {s[i] : i \in 1..Len(s)}

\* dict.get(key, default)
Get(d, key, default) == IF key \in DOMAIN d THEN d[key] ELSE default

\* ------------------------------------------------------------------ bounds

\* a directory holds at most MaxFiles of the entries of FileUniverse
MaxFiles == 3

\* ------------------------------------------------------------------ globbing

\* one path segment against one pattern segment
RECURSIVE SegMatch(_, _)
SegMatch(pat, name) ==
    IF pat = <<>> THEN name = <<>>
    ELSE IF Head(pat) = "*"
         THEN \E k \in 0..Len(name) : SegMatch(Tail(pat), SubSeq(name, k + 1, Len(name)))
         ELSE /\ name # <<>>
              /\ Head(name) = Head(pat)
              /\ SegMatch(Tail(pat), Tail(name))

PathMatch(pattern, p) ==
    /\ Len(pattern) = Len(p)
    /\ \A i \in 1..Len(p) : SegMatch(pattern[i], p[i])

\* list(path.glob(marker)): the matching entries, in the order the file system
\* lists them; nothing when the directory does not exist
Glob(d, order, marker) ==
    IF d.exists THEN SelectSeq(order, LAMBDA p : p \in d.entries /\ PathMatch(marker, p))
    ELSE <<>>

\* ------------------------------------------------------------------ detection

File(tokens) == <<tokens>>

Rule(markers, prof, var) == [markers |-> markers, profile |-> prof, variant |-> var]

\* the Maven rule with its variant left out
JavaMavenRuleUnlabelled == Rule(<<File(<<"pom.xml">>)>>, "java", None)

JavaMavenRule == Rule(<<File(<<"pom.xml">>)>>, "java", "maven")

\* the Gradle rule with its variant left out
JavaGradleRuleUnlabelled ==
    Rule(<<File(<<"build.gradle">>), File(<<"build.gradle", ".kts">>), File(<<"gradlew">>)>>,
         "java", None)

JavaGradleRule ==
    Rule(<<File(<<"build.gradle">>), File(<<"build.gradle", ".kts">>), File(<<"gradlew">>)>>,
         "java", "gradle")

DETECTION_RULES == <<
    Rule(<<File(<<"*", ".xcodeproj">>), File(<<"*", ".xcworkspace">>), File(<<"Package.swift">>)>>,
         "ios-swift", None),
    Rule(<<File(<<"pubspec.yaml">>)>>, "flutter", None),
    Rule(<<<< <<"app">>, <<"build.gradle", "*">> >>, << <<"app">>, <<"build.gradle", ".kts">> >>>>,
         "android", None),
    JavaMavenRule,
    JavaGradleRule,
    Rule(<<File(<<"Cargo.toml">>)>>, "rust", None),
    Rule(<<File(<<"go.mod">>)>>, "go", None),
    Rule(<<File(<<"next.config.", "*">>), File(<<"*", ".tsx">>)>>, "typescript-react", None),
    Rule(<<File(<<"tsconfig.json">>)>>, "typescript-node", None),
    Rule(<<File(<<"package.json">>)>>, "javascript-node", None),
    Rule(<<File(<<"pyproject.toml">>), File(<<"setup.py">>), File(<<"requirements.txt">>),
           File(<<"Pipfile">>)>>, "python", None),
    Rule(<<File(<<"CMakeLists.txt">>), File(<<"Makefile">>)>>, "cpp", None)
>>

\* the loop left after its first marker, matched or not
MarkerHitFirstOnly(d, order, markers, j) ==
    j <= Len(markers) /\ Glob(d, order, markers[j]) # <<>>

\* the inner loop of detect_project: does some marker of the rule, tried in
\* order from the j-th, have a match
RECURSIVE MarkerHit(_, _, _, _)
MarkerHit(d, order, markers, j) ==
    IF j > Len(markers) THEN FALSE
    ELSE IF Glob(d, order, markers[j]) # <<>> THEN TRUE
    ELSE MarkerHit(d, order, markers, j + 1)

\* the body of the outer loop for one rule
DetectStep(d, order, r, acc) ==
    IF MarkerHit(d, order, r.markers, 1)
    THEN LET entry == <<r.profile, r.variant>>
         IN  IF entry \notin Range(acc) THEN Append(acc, entry) ELSE acc
    ELSE acc

RECURSIVE DetectFrom(_, _, _, _)
DetectFrom(d, order, i, acc) ==
    IF i > Len(DETECTION_RULES) THEN acc
    ELSE DetectFrom(d, order, i + 1, DetectStep(d, order, DETECTION_RULES[i], acc))

detect_project(d, order) == DetectFrom(d, order, 1, <<>>)

\* `x or y` on optional strings
Falsy(v) == v = None \/ v = ""

Has(d, order, tokens) == Glob(d, order, File(tokens)) # <<>>

\* (path / name).exists()
Exists(d, tokens) == d.exists /\ File(tokens) \in d.entries

JsFramework(deps) ==
    IF "next" \in deps THEN "nextjs"
    ELSE IF "react" \in deps THEN "react"
    ELSE IF "vue" \in deps THEN "vue"
    ELSE IF "svelte" \in deps \/ "@sveltejs/kit" \in deps THEN "svelte"
    ELSE IF "express" \in deps \/ "fastify" \in deps \/ "koa" \in deps THEN "api"
    ELSE None

JavaVariant(d, order) ==
    IF Has(d, order, <<"pom.xml">>) THEN "maven"
    ELSE IF \/ Has(d, order, <<"build.gradle">>)
            \/ Has(d, order, <<"build.gradle", ".kts">>)
            \/ Has(d, order, <<"gradlew">>)
         THEN "gradle"
    ELSE None

JsVariant(d) ==
    IF Exists(d, <<"package.json">>) /\ d.package_json.parses
    THEN JsFramework(d.package_json.dependencies \cup d.package_json.devDependencies)
    ELSE None

PythonVariant(d, order) ==
    IF Has(d, order, <<"manage.py">>) THEN "django"
    ELSE IF Has(d, order, <<"app.py">>) \/ Has(d, order, <<"wsgi.py">>) THEN "flask"
    ELSE IF Exists(d, <<"pyproject.toml">>) /\ d.pyproject_fastapi THEN "fastapi"
    ELSE None

\* the three blocks fall through to the next when they return nothing; the
\* profile names they test are disjoint
detect_variant(profile_name, d, order) ==
    IF profile_name = "java" /\ JavaVariant(d, order) # None THEN JavaVariant(d, order)
    ELSE IF /\ profile_name \in {"typescript-react", "typescript-node", "javascript-node"}
            /\ JsVariant(d) # None
         THEN JsVariant(d)
    ELSE IF profile_name = "python" THEN PythonVariant(d, order)
    ELSE None

\* ------------------------------------------------------------------ directories

\* the entries a project directory may hold
FileUniverse == <<
    File(<<"App", ".xcodeproj">>), << <<"app">>, <<"build.gradle", ".kts">> >>,
    File(<<"pom.xml">>), File(<<"build.gradle">>), File(<<"gradlew">>),
    File(<<"Cargo.toml">>), File(<<"App", ".tsx">>), File(<<"package.json">>),
    File(<<"pyproject.toml">>), File(<<"manage.py">>), File(<<"README.md">>)
>>

\* the orders in which the file system may list a set of entries
Listings(S) ==
    {o \in [1..Cardinality(S) -> S] : \A i, j \in 1..Cardinality(S) : o[i] = o[j] => i = j}

Manifest(ok, deps, dev) == [parses |-> ok, dependencies |-> deps, devDependencies |-> dev]

NoManifest == Manifest(FALSE, {}, {})

\* contents of package.json: unparseable, or its two dependency tables
Manifests ==
    {NoManifest, Manifest(TRUE, {"react", "next"}, {}),
     Manifest(TRUE, {"lodash"}, {"vue", "svelte"}), Manifest(TRUE, {"koa"}, {})}

Directory(ex, entries, pkg, fastapi) ==
    [exists |-> ex, entries |-> entries, package_json |-> pkg, pyproject_fastapi |-> fastapi]

MissingDirectory == Directory(FALSE, {}, NoManifest, FALSE)

Directories ==
    {MissingDirectory} \cup
    {Directory(TRUE, S, pkg, fa) :
        S \in {T \in SUBSET Range(FileUniverse) : Cardinality(T) <= MaxFiles},
        pkg \in Manifests, fa \in BOOLEAN}

\* a manifest or a pyproject text is varied only where the file is there
WellFormedDirectory(d) ==
    /\ File(<<"package.json">>) \notin d.entries => d.package_json = NoManifest
    /\ File(<<"pyproject.toml">>) \notin d.entries => d.pyproject_fastapi = FALSE

\* ------------------------------------------------------------------ merging

\* the number of names a map of a profile document draws its keys from
MaxKeys == 2

Names == <<"a", "b", "c", "d">>

Keys == {Names[i] : i \in 1..MaxKeys}

\* Python truth of a dict, a list or a str
Truthy(v) == DOMAIN v # {}

\* an update in which the entries already there win
UpdateKeepingBase(base, over) == base @@ over

\* {**base, **over} and base.update(over)
Update(base, over) == over @@ base

\* d.pop(key, None)
Pop(d, key) == [k \in DOMAIN d \ {key} |-> d[k]]

\* for excluded in exclude_mcps: mcp_servers.pop(excluded, None)
RECURSIVE PopAll(_, _)
PopAll(d, excluded) ==
    IF excluded = <<>> THEN d ELSE PopAll(Pop(d, Head(excluded)), Tail(excluded))

\* a lookup that falls back on some variant of the document when the name is unknown
VariantConfigFallback(doc, var) ==
    IF ~Falsy(var) /\ "variants" \in DOMAIN doc
    THEN IF var \in DOMAIN doc["variants"] THEN doc["variants"][var]
         ELSE IF DOMAIN doc["variants"] # {}
              THEN doc["variants"][CHOOSE v \in DOMAIN doc["variants"] : TRUE]
              ELSE EmptyMap
    ELSE EmptyMap

\* profile["variants"].get(variant, {}) behind `variant and "variants" in profile`
VariantConfig(doc, var) ==
    IF ~Falsy(var) /\ "variants" \in DOMAIN doc
    THEN Get(doc["variants"], var, EmptyMap)
    ELSE EmptyMap

\* lines 206-209
MergedMcp(doc, cfg) ==
    IF Truthy(Get(cfg, "mcp_servers", EmptyMap))
    THEN Update(Get(doc, "mcp_servers", EmptyMap), cfg["mcp_servers"])
    ELSE Get(doc, "mcp_servers", EmptyMap)

\* the exclusion done before the variant's servers are added: a server the
\* variant adds survives it
ExcludedMcpBeforeAdding(servers, cfg) ==
    PopAll(servers, SelectSeq(Get(cfg, "exclude_mcps", <<>>),
                              LAMBDA k : k \notin DOMAIN Get(cfg, "mcp_servers", EmptyMap)))

\* lines 211-212
ExcludedMcp(servers, cfg) == PopAll(servers, Get(cfg, "exclude_mcps", <<>>))

\* lines 224-226
MergedClaudeMd(doc, cfg) ==
    IF Truthy(Get(cfg, "claude_md_append", <<>>))
    THEN Get(doc, "claude_md", <<>>) \o <<"\n\n">> \o cfg["claude_md_append"]
    ELSE Get(doc, "claude_md", <<>>)

\* lines 239-241 and 250-252
MergedTexts(doc, cfg, field) ==
    IF Truthy(Get(cfg, field, EmptyMap))
    THEN Update(Get(doc, field, EmptyMap), cfg[field])
    ELSE Get(doc, field, EmptyMap)

\* JSON values of the settings tree: a scalar, or an object with its items
Scalar(n) == [kind |-> "scalar", val |-> n, items |-> EmptyMap]

Mapping(items) == [kind |-> "map", val |-> 0, items |-> items]

JsonNull == [kind |-> "null", val |-> 0, items |-> EmptyMap]

\* isinstance(v, dict)
IsDict(v) == v.kind = "map"

\* a merge that goes one level further down: objects inside the two objects
\* are merged too
MergeEntryDeep(s, key, val) ==
    IF IsDict(val) /\ IsDict(Get(s, key, JsonNull))
    THEN LET old == s[key].items
             new == val.items
         IN  (key :> Mapping([k \in DOMAIN old \cup DOMAIN new |->
                        IF k \notin DOMAIN new THEN old[k]
                        ELSE IF k \in DOMAIN old /\ IsDict(old[k]) /\ IsDict(new[k])
                             THEN Mapping(Update(old[k].items, new[k].items))
                             ELSE new[k]])) @@ s
    ELSE (key :> val) @@ s

\* the body of the loop of lines 265-269
MergeEntry(s, key, val) ==
    IF IsDict(val) /\ IsDict(Get(s, key, JsonNull))
    THEN (key :> Mapping(Update(s[key].items, val.items))) @@ s
    ELSE (key :> val) @@ s

RECURSIVE MergeItems(_, _, _)
MergeItems(s, override, keys) ==
    IF keys = {} THEN s
    ELSE LET k == CHOOSE x \in keys : TRUE
         IN  MergeItems(MergeEntry(s, k, override[k]), override, keys \ {k})

\* lines 262-269
MergedSettings(doc, cfg) ==
    IF Truthy(Get(cfg, "settings_merge", EmptyMap))
    THEN MergeItems(Get(doc, "settings", EmptyMap), cfg["settings_merge"],
                    DOMAIN cfg["settings_merge"])
    ELSE Get(doc, "settings", EmptyMap)

\* line 262 takes profile["settings"] itself, not a copy: the assignments of
\* lines 267 and 269 land in the loaded document when it has the key
ProfileAfterSettings(doc, cfg) ==
    IF "settings" \in DOMAIN doc /\ Truthy(Get(cfg, "settings_merge", EmptyMap))
    THEN [doc EXCEPT !["settings"] = MergedSettings(doc, cfg)]
    ELSE doc

\* ------------------------------------------------------------------ profile documents

\* the names of S as a list, in the order of Names
ListOf(S) == SelectSeq(Names, LAMBDA k : k \in S)

BaseServers(S) == [k \in S |-> "base-cfg"]

VariantServers(S) == [k \in S |-> "variant-cfg"]

BaseTexts(S) == [k \in S |-> <<"base", k>>]

VariantTexts(S) == [k \in S |-> <<"variant", k>>]

\* a document with the field, or without it
Field(name, present, value) == IF present THEN name :> value ELSE EmptyMap

\* documents that differ in their MCP servers
McpDocs ==
    {("mcp_servers" :> BaseServers(B)) @@ ("claude_md" :> <<"base-md">>) @@
     ("variants" :> ("maven" :> (("mcp_servers" :> VariantServers(A)) @@
                                 ("exclude_mcps" :> ListOf(E))))) :
        B \in SUBSET Keys, A \in SUBSET Keys, E \in SUBSET Keys}

\* documents that differ in their rules, and in their skills
RuleDocs ==
    {("rules" :> BaseTexts(B)) @@ ("skills" :> BaseTexts({"a"})) @@
     ("variants" :> (("maven" :> ("rules" :> VariantTexts(A))) @@ ("gradle" :> EmptyMap))) :
        B \in SUBSET Keys, A \in SUBSET Keys}

SkillDocs ==
    {("skills" :> BaseTexts(B)) @@
     ("variants" :> ("maven" :> (("skills" :> VariantTexts(A)) @@
                                 ("claude_md_append" :> <<"variant-md">>)))) :
        B \in SUBSET Keys, A \in SUBSET Keys}

\* documents that differ in their instructions text
MdDocs ==
    {Field("claude_md", b # 0, IF b = 2 THEN <<"base-md">> ELSE <<>>) @@
     ("variants" :> ("maven" :>
         Field("claude_md_append", a # 0, IF a = 2 THEN <<"variant-md">> ELSE <<>>))) :
        b \in 0..2, a \in 0..2}

\* documents that differ in their settings: at "permissions" a scalar, an
\* object, or an object holding an object; at "model" a scalar or nothing
BaseSettings ==
    {Field("permissions", p # 0,
           IF p = 1 THEN Scalar(1)
           ELSE IF p = 2 THEN Mapping("x" :> Scalar(1))
           ELSE Mapping(("x" :> Mapping("p" :> Scalar(1))) @@ ("y" :> Scalar(1)))) @@
     Field("model", m, Scalar(1)) :
        p \in 0..3, m \in BOOLEAN}

SettingsOverrides ==
    {Field("permissions", p # 0,
           IF p = 1 THEN Scalar(2)
           ELSE IF p = 2 THEN Mapping("x" :> Scalar(2))
           ELSE IF p = 3 THEN Mapping("x" :> Mapping("q" :> Scalar(2)))
           ELSE Mapping(EmptyMap)) @@
     Field("model", m, Mapping("x" :> Scalar(2))) :
        p \in 0..4, m \in BOOLEAN}

SettingsDocs ==
    {Field("settings", has, base) @@
     ("variants" :> ("maven" :> ("settings_merge" :> over))) :
        has \in BOOLEAN, base \in BaseSettings, over \in SettingsOverrides}

\* what load_profile may read: any of the above, or a document with no field
Profiles ==
    McpDocs \cup RuleDocs \cup SkillDocs \cup MdDocs \cup SettingsDocs \cup {EmptyMap}

\* ------------------------------------------------------------------ state

NoArgs == [profile |-> None, variant |-> None, dry_run |-> FALSE]

NoOutput == [msg |-> "", labels |-> <<>>, suggest |-> <<>>]

\* the artifacts under the target directory
Files(dirs, mcp, md, bak, rule_files, skill_dirs, skill_files, settings_json, gitignore) ==
    [dirs |-> dirs, mcp_json |-> mcp, claude_md |-> md, claude_md_bak |-> bak,
     rule_files |-> rule_files, skill_dirs |-> skill_dirs, skill_files |-> skill_files,
     settings_json |-> settings_json, gitignore |-> gitignore]

NoFiles == Files({}, <<>>, <<>>, <<>>, EmptyMap, {}, EmptyMap, <<>>, <<>>)

Running == -1

\* what cmd_diff found: whether .mcp.json is there, and the sets of names
Report(mcp_json, missing_mcp, extra_mcp, missing_rules, missing_skills) ==
    [mcp_json |-> mcp_json, missing_mcp |-> missing_mcp, extra_mcp |-> extra_mcp,
     missing_rules |-> missing_rules, missing_skills |-> missing_skills]

NoReport == Report("", {}, {}, {}, {})

FreshLocals ==
    /\ report = NoReport
    /\ profile = EmptyMap
    /\ loaded = EmptyMap
    /\ variant = None
    /\ variant_config = EmptyMap
    /\ mcp_servers = EmptyMap
    /\ claude_md = <<>>
    /\ rules = EmptyMap
    /\ skills = EmptyMap
    /\ settings = EmptyMap
    /\ detected = <<>>
    /\ out = NoOutput
    /\ exit_code = Running

\* ------------------------------------------------------------------ cmd_detect

\* `variant or detect_variant(profile, directory)`
AutoVariant(entry, d, order) ==
    IF Falsy(entry[2]) THEN detect_variant(entry[1], d, order) ELSE entry[2]

Labels(det, d, order) == [i \in 1..Len(det) |-> <<det[i][1], AutoVariant(det[i], d, order)>>]

Suggestion(det, d, order) ==
    IF Len(det) = 1 THEN <<<<det[1][1], AutoVariant(det[1], d, order)>>>> ELSE <<>>

DetectLocals == <<report, args, fs, profile, loaded, variant, variant_config, mcp_servers,
                  claude_md, rules, skills, settings>>

\* a cmd_detect that tests the directory first and fails when it is missing
DetectOutcomeChecked(det, d, order) ==
    IF ~d.exists
    THEN [out |-> [msg |-> "not_found", labels |-> <<>>, suggest |-> <<>>], status |-> 1]
    ELSE IF det = <<>>
    THEN [out |-> [msg |-> "no_project", labels |-> <<>>, suggest |-> <<>>], status |-> 0]
    ELSE [out |-> [msg |-> "detected", labels |-> Labels(det, d, order),
                   suggest |-> Suggestion(det, d, order)],
          status |-> 0]

\* what cmd_detect prints and how the process ends: the function returns on
\* both paths, so the exit status is 0
DetectOutcome(det, d, order) ==
    IF det = <<>>
    THEN [out |-> [msg |-> "no_project", labels |-> <<>>, suggest |-> <<>>], status |-> 0]
    ELSE [out |-> [msg |-> "detected", labels |-> Labels(det, d, order),
                   suggest |-> Suggestion(det, d, order)],
          status |-> 0]

\* lines 303-307: nothing detected, the message and a plain return
cmd_detect_none ==
    /\ pc = "cmd_detect"
    /\ LET det == detect_project(dir, listing)
           outcome == DetectOutcome(det, dir, listing)
       IN  /\ det = <<>>
           /\ detected' = det
           /\ out' = outcome.out
           /\ exit_code' = outcome.status
    /\ pc' = "exit"
    /\ UNCHANGED <<dir, listing, DetectLocals>>

\* lines 303, 309-321
cmd_detect_report ==
    /\ pc = "cmd_detect"
    /\ LET det == detect_project(dir, listing)
           outcome == DetectOutcome(det, dir, listing)
       IN  /\ det # <<>>
           /\ detected' = det
           /\ out' = outcome.out
           /\ exit_code' = outcome.status
    /\ pc' = "exit"
    /\ UNCHANGED <<dir, listing, DetectLocals>>

InitDetect ==
    /\ pc = "cmd_detect"
    /\ args = NoArgs
    /\ dir \in Directories
    /\ WellFormedDirectory(dir)
    /\ listing \in Listings(dir.entries)
    /\ fs = NoFiles
    /\ FreshLocals

NextDetect == cmd_detect_none \/ cmd_detect_report

SpecDetect == InitDetect /\ [][NextDetect]_vars

\* ------------------------------------------------------------------ file writes

\* path.write_text(text + "\n"), as the optional content of the file
Written(text) == <<text \o <<"\n">>>>

DIRS_TO_CREATE == <<".claude/rules", ".claude/skills">>

\* step 1: target.mkdir(parents=True) for each directory that is not there
MakeDirs(dry_run, f) ==
    LET missing == {d \in Range(DIRS_TO_CREATE) : d \notin f.dirs}
    IN  IF dry_run \/ missing = {} THEN f
        ELSE [f EXCEPT !.dirs = @ \cup {".claude"} \cup missing]

\* step 2: .mcp.json holds the document {"mcpServers": mcp_servers}
WriteMcp(dry_run, f, servers) ==
    IF Truthy(servers) /\ ~dry_run
    THEN [f EXCEPT !.mcp_json = <<"mcpServers" :> servers>>]
    ELSE f

\* the backup copy made outside the dry-run test
WriteClaudeMdBackupUnguarded(dry_run, f, text) ==
    IF Truthy(text)
    THEN [f EXCEPT !.claude_md_bak = IF f.claude_md # <<>> THEN f.claude_md ELSE @,
                   !.claude_md = IF dry_run THEN @ ELSE Written(text)]
    ELSE f

\* the write done first and the copy after it: the backup gets the new text
WriteClaudeMdThenBackup(dry_run, f, text) ==
    IF Truthy(text) /\ ~dry_run
    THEN [f EXCEPT !.claude_md_bak = IF f.claude_md # <<>> THEN Written(text) ELSE @,
                   !.claude_md = Written(text)]
    ELSE f

\* step 3: shutil.copy2 to CLAUDE.md.bak when CLAUDE.md is there, then the write
WriteClaudeMd(dry_run, f, text) ==
    IF Truthy(text) /\ ~dry_run
    THEN [f EXCEPT !.claude_md_bak = IF f.claude_md # <<>> THEN f.claude_md ELSE @,
                   !.claude_md = Written(text)]
    ELSE f

\* step 4: one file per rule
WriteRules(dry_run, f, texts) ==
    IF dry_run THEN f
    ELSE [f EXCEPT !.rule_files = [k \in DOMAIN texts |-> Written(texts[k])[1]] @@ @]

\* step 5: one directory per skill, and SKILL.md in it
WriteSkills(dry_run, f, texts) ==
    IF dry_run THEN f
    ELSE [f EXCEPT !.skill_dirs = @ \cup DOMAIN texts,
                   !.skill_files = [k \in DOMAIN texts |-> Written(texts[k])[1]] @@ @]

\* step 6
WriteSettings(dry_run, f, tree) ==
    IF Truthy(tree) /\ ~dry_run THEN [f EXCEPT !.settings_json = <<tree>>] ELSE f

GITIGNORE_ENTRIES == <<".claude/settings.local.json", ".claude/CLAUDE.local.md">>

\* `e in line` on the lines a .gitignore of the model holds
SubstringOf(e, line) ==
    \/ line = e
    \/ line = "docs/.claude/settings.local.json" /\ e = ".claude/settings.local.json"

\* `e not in existing_gitignore`
NewEntries(existing) ==
    SelectSeq(GITIGNORE_ENTRIES, LAMBDA e : \A i \in 1..Len(existing) : ~SubstringOf(e, existing[i]))

RECURSIVE EntryLines(_)
EntryLines(entries) ==
    IF entries = <<>> THEN <<>> ELSE <<Head(entries), "\n">> \o EntryLines(Tail(entries))

\* step 7: the missing entries appended under a comment line
WriteGitignore(dry_run, f) ==
    LET existing == IF f.gitignore # <<>> THEN f.gitignore[1] ELSE <<>>
        new_entries == NewEntries(existing)
    IN  IF new_entries # <<>> /\ ~dry_run
        THEN [f EXCEPT !.gitignore =
                <<existing \o <<"\n", "# Claude Code (local)", "\n">> \o EntryLines(new_entries)>>]
        ELSE f

\* ------------------------------------------------------------------ apply_profile

\* lines 177-178
ResolvedVariant(a, d, order) ==
    IF a.variant = None THEN detect_variant(a.profile, d, order) ELSE a.variant

ApplyFrame == <<args, listing, detected, report>>

\* load_profile finds no document of that name
load_profile_missing ==
    /\ pc = "apply_profile"
    /\ out' = [out EXCEPT !.msg = "profile_not_found"]
    /\ exit_code' = 1
    /\ pc' = "exit"
    /\ UNCHANGED <<ApplyFrame, dir, fs, profile, loaded, variant, variant_config,
                   mcp_servers, claude_md, rules, skills, settings>>

\* lines 173-194: the document is read and the variant resolved
apply_load ==
    /\ pc = "apply_profile"
    /\ \E doc \in Profiles :
        /\ profile' = doc
        /\ loaded' = doc
    /\ variant' = ResolvedVariant(args, dir, listing)
    /\ variant_config' = VariantConfig(profile', variant')
    /\ out' = [out EXCEPT !.msg = IF args.dry_run THEN "dry_run" ELSE "apply"]
    /\ pc' = "mkdirs"
    /\ UNCHANGED <<ApplyFrame, dir, fs, mcp_servers, claude_md, rules, skills, settings,
                   exit_code>>

\* lines 196-203
apply_mkdirs ==
    /\ pc = "mkdirs"
    /\ fs' = MakeDirs(args.dry_run, fs)
    /\ dir' = IF fs' # fs THEN [dir EXCEPT !.exists = TRUE] ELSE dir
    /\ pc' = "mcp_merge"
    /\ UNCHANGED <<ApplyFrame, profile, loaded, variant, variant_config, mcp_servers,
                   claude_md, rules, skills, settings, out, exit_code>>

\* lines 206-209
apply_mcp_merge ==
    /\ pc = "mcp_merge"
    /\ mcp_servers' = MergedMcp(profile, variant_config)
    /\ pc' = "mcp_write"
    /\ UNCHANGED <<ApplyFrame, dir, fs, profile, loaded, variant, variant_config,
                   claude_md, rules, skills, settings, out, exit_code>>

\* lines 211-221
apply_mcp_write ==
    /\ pc = "mcp_write"
    /\ mcp_servers' = ExcludedMcp(mcp_servers, variant_config)
    /\ fs' = WriteMcp(args.dry_run, fs, mcp_servers')
    /\ pc' = "claude_md"
    /\ UNCHANGED <<ApplyFrame, dir, profile, loaded, variant, variant_config,
                   claude_md, rules, skills, settings, out, exit_code>>

\* lines 224-236
apply_claude_md ==
    /\ pc = "claude_md"
    /\ claude_md' = MergedClaudeMd(profile, variant_config)
    /\ fs' = WriteClaudeMd(args.dry_run, fs, claude_md')
    /\ pc' = "rules"
    /\ UNCHANGED <<ApplyFrame, dir, profile, loaded, variant, variant_config,
                   mcp_servers, rules, skills, settings, out, exit_code>>

\* lines 239-247
apply_rules ==
    /\ pc = "rules"
    /\ rules' = MergedTexts(profile, variant_config, "rules")
    /\ fs' = WriteRules(args.dry_run, fs, rules')
    /\ pc' = "skills"
    /\ UNCHANGED <<ApplyFrame, dir, profile, loaded, variant, variant_config,
                   mcp_servers, claude_md, skills, settings, out, exit_code>>

\* lines 250-259
apply_skills ==
    /\ pc = "skills"
    /\ skills' = MergedTexts(profile, variant_config, "skills")
    /\ fs' = WriteSkills(args.dry_run, fs, skills')
    /\ pc' = "settings"
    /\ UNCHANGED <<ApplyFrame, dir, profile, loaded, variant, variant_config,
                   mcp_servers, claude_md, rules, settings, out, exit_code>>

\* lines 262-275
apply_settings ==
    /\ pc = "settings"
    /\ settings' = MergedSettings(profile, variant_config)
    /\ profile' = ProfileAfterSettings(profile, variant_config)
    /\ fs' = WriteSettings(args.dry_run, fs, settings')
    /\ pc' = "gitignore"
    /\ UNCHANGED <<ApplyFrame, dir, loaded, variant, variant_config,
                   mcp_servers, claude_md, rules, skills, out, exit_code>>

\* lines 278-297
apply_gitignore ==
    /\ pc = "gitignore"
    /\ fs' = WriteGitignore(args.dry_run, fs)
    /\ out' = [out EXCEPT !.msg = "applied"]
    /\ exit_code' = 0
    /\ pc' = "exit"
    /\ UNCHANGED <<ApplyFrame, dir, profile, loaded, variant, variant_config,
                   mcp_servers, claude_md, rules, skills, settings>>

\* ------------------------------------------------------------------ apply: inputs

\* target directories of an apply run, by the markers detect_variant looks at
ApplyDirectories ==
    {MissingDirectory} \cup
    {Directory(TRUE, S, NoManifest, FALSE) :
        S \in {{}, {File(<<"pom.xml">>)}, {File(<<"gradlew">>)}}}

OldClaudeMd == <<<<"old-md", "\n">>>>

\* artifacts a target directory may hold before apply runs
ArtifactStates ==
    {NoFiles,
     \* an instructions file written by hand
     Files({".claude"}, <<>>, OldClaudeMd, <<>>, EmptyMap, {}, EmptyMap, <<>>, <<>>),
     \* what an earlier apply left, with a server and a skill of the user's own
     Files({".claude", ".claude/rules", ".claude/skills"},
           <<"mcpServers" :> (("a" :> "old-cfg") @@ ("mine" :> "old-cfg"))>>,
           OldClaudeMd, <<<<"older-md", "\n">>>>,
           "a" :> <<"old", "a", "\n">>, {"a", "mine"}, "a" :> <<"old", "a", "\n">>,
           <<"model" :> Scalar(0)>>,
           <<<<"node_modules", "\n", "# Claude Code (local)", "\n",
               ".claude/settings.local.json", "\n", ".claude/CLAUDE.local.md", "\n">>>>),
     \* a .gitignore that names one entry inside a longer line
     Files({".claude", ".claude/rules"}, <<>>, <<>>, <<>>, EmptyMap, {}, EmptyMap, <<>>,
           <<<<"docs/.claude/settings.local.json", "\n">>>>)}

Init ==
    /\ pc = "apply_profile"
    /\ args \in [profile : {"java"}, variant : {None, "", "maven", "typo"}, dry_run : BOOLEAN]
    /\ dir \in ApplyDirectories
    /\ listing \in Listings(dir.entries)
    /\ fs \in ArtifactStates
    /\ ~dir.exists => fs = NoFiles
    /\ FreshLocals

Next ==
    \/ load_profile_missing
    \/ apply_load
    \/ apply_mkdirs
    \/ apply_mcp_merge
    \/ apply_mcp_write
    \/ apply_claude_md
    \/ apply_rules
    \/ apply_skills
    \/ apply_settings
    \/ apply_gitignore

Spec == Init /\ [][Next]_vars

\* ------------------------------------------------------------------ cmd_diff

\* lines 457-499: the names the profile document declares against the names
\* in the directory; the document is the one load_profile returns, as stored
DiffReport(doc, f) ==
    LET current_mcps == IF f.mcp_json # <<>>
                        THEN DOMAIN Get(f.mcp_json[1], "mcpServers", EmptyMap) ELSE {}
        profile_mcps == DOMAIN Get(doc, "mcp_servers", EmptyMap)
        existing_rules == IF ".claude/rules" \in f.dirs THEN DOMAIN f.rule_files ELSE {}
        existing_skills == IF ".claude/skills" \in f.dirs THEN f.skill_dirs ELSE {}
    IN  Report(IF f.mcp_json # <<>> THEN "compared" ELSE "absent",
               IF f.mcp_json # <<>> THEN profile_mcps \ current_mcps ELSE {},
               IF f.mcp_json # <<>> THEN current_mcps \ profile_mcps ELSE {},
               DOMAIN Get(doc, "rules", EmptyMap) \ existing_rules,
               DOMAIN Get(doc, "skills", EmptyMap) \ existing_skills)

\* the profile names a diff run may be given for the directory of the apply run
DiffNames == {"java", "auto"}

DiffFrame == <<args, dir, listing, fs, profile, loaded, variant, variant_config,
               mcp_servers, claude_md, rules, skills, settings>>

\* lines 446-450: `diff auto` on a directory where no rule matches
cmd_diff_undetected ==
    /\ pc = "exit"
    /\ detect_project(dir, listing) = <<>>
    /\ detected' = <<>>
    /\ out' = [out EXCEPT !.msg = "undetected"]
    /\ exit_code' = 1
    /\ pc' = "diff_exit"
    /\ UNCHANGED <<DiffFrame, report>>

\* lines 446-453: the name, given or detected, and no document stored under it
cmd_diff_missing_profile ==
    /\ pc = "exit"
    /\ out.msg = "profile_not_found"
    /\ \E name \in DiffNames :
        /\ name = "auto" => detect_project(dir, listing) # <<>>
        /\ detected' = IF name = "auto" THEN detect_project(dir, listing) ELSE detected
    /\ exit_code' = 1
    /\ pc' = "diff_exit"
    /\ UNCHANGED <<DiffFrame, out, report>>

\* lines 440-501: the stored document of the profile, which is the one the
\* apply run loaded, compared with the directory
cmd_diff_report ==
    /\ pc = "exit"
    /\ out.msg = "applied"
    /\ \E name \in DiffNames :
        /\ name = "auto" => detect_project(dir, listing) # <<>>
        /\ detected' = IF name = "auto" THEN detect_project(dir, listing) ELSE detected
        /\ (IF name = "auto" THEN detected'[1][1] ELSE name) = args.profile
    /\ report' = DiffReport(loaded, fs)
    /\ out' = [out EXCEPT !.msg = "diff"]
    /\ exit_code' = 0
    /\ pc' = "diff_exit"
    /\ UNCHANGED DiffFrame

\* an apply run, and then a diff run on the same directory
NextDiff ==
    \/ Next
    \/ cmd_diff_undetected
    \/ cmd_diff_missing_profile
    \/ cmd_diff_report

SpecDiff == Init /\ [][NextDiff]_vars

\* ------------------------------------------------------------------ properties of apply

StepOrder == <<"apply_profile", "mkdirs", "mcp_merge", "mcp_write", "claude_md", "rules",
               "skills", "settings", "gitignore", "exit">>

Position(step) == CHOOSE i \in 1..Len(StepOrder) : StepOrder[i] = step

\* the run loaded a profile and has gone past the step
Done(step) == out.msg # "profile_not_found" /\ Position(pc) > Position(step)

Variants(doc) == Get(doc, "variants", EmptyMap)

VariantPresent == variant \in DOMAIN Variants(loaded)

\* m is base with the entries of over written over it
IsOverlay(m, base, over) ==
    /\ DOMAIN m = DOMAIN base \cup DOMAIN over
    /\ \A k \in DOMAIN m : m[k] = IF k \in DOMAIN over THEN over[k] ELSE base[k]

\* C1: once the MCP step is done for a variant of the profile, no name of the
\* variant's exclude_mcps is a key of the merged mcp_servers, also when the
\* variant adds that name; and the .mcp.json a run writes holds that map.
C1_ExcludedNeverMerged ==
    (Done("mcp_write") /\ VariantPresent) =>
        /\ \A k \in Range(Get(Variants(loaded)[variant], "exclude_mcps", <<>>)) :
                k \notin DOMAIN mcp_servers
        /\ (~args.dry_run /\ Truthy(mcp_servers)) =>
                fs.mcp_json = <<"mcpServers" :> mcp_servers>>

\* a run that wrote .mcp.json for a variant excluding a server that the base
\* has and the variant adds again
C1_Witness ==
    /\ pc = "exit"
    /\ VariantPresent
    /\ ~args.dry_run
    /\ Truthy(mcp_servers)
    /\ \E k \in Range(Get(Variants(loaded)[variant], "exclude_mcps", <<>>)) :
            /\ k \in DOMAIN Get(loaded, "mcp_servers", EmptyMap)
            /\ k \in DOMAIN Get(Variants(loaded)[variant], "mcp_servers", EmptyMap)

\* C2: a run whose variant name is no key of the profile's variants ends without
\* error and its effective configuration is the profile's base configuration,
\* which is what the merge with no variant gives.
C2_AbsentVariantIsNoVariant ==
    (pc = "exit" /\ out.msg # "profile_not_found" /\ ~VariantPresent) =>
        /\ exit_code = 0
        /\ variant_config = EmptyMap
        /\ mcp_servers = Get(loaded, "mcp_servers", EmptyMap)
        /\ claude_md = Get(loaded, "claude_md", <<>>)
        /\ rules = Get(loaded, "rules", EmptyMap)
        /\ skills = Get(loaded, "skills", EmptyMap)
        /\ settings = Get(loaded, "settings", EmptyMap)

\* a finished run asked for a variant the profile does not have, while the
\* profile has another variant that would have changed the result
C2_Witness ==
    /\ pc = "exit"
    /\ out.msg = "applied"
    /\ variant = "typo"
    /\ "maven" \in DOMAIN Variants(loaded)
    /\ Truthy(Get(Variants(loaded)["maven"], "mcp_servers", EmptyMap))
    /\ Truthy(mcp_servers)

\* C3: with a variant of the profile, mcp_servers before the exclusion, rules
\* and skills each have the base keys and the variant's keys; a key of both has
\* the variant's value, a key of the base alone the base value.
C3_VariantOverlaysBase ==
    VariantPresent =>
        LET cfg == Variants(loaded)[variant]
        IN  /\ pc = "mcp_write" =>
                    IsOverlay(mcp_servers, Get(loaded, "mcp_servers", EmptyMap),
                              Get(cfg, "mcp_servers", EmptyMap))
            /\ Done("rules") =>
                    IsOverlay(rules, Get(loaded, "rules", EmptyMap), Get(cfg, "rules", EmptyMap))
            /\ Done("skills") =>
                    IsOverlay(skills, Get(loaded, "skills", EmptyMap),
                              Get(cfg, "skills", EmptyMap))

\* a finished run whose variant overwrites one rule of the base and leaves
\* another one alone
C3_Witness ==
    /\ pc = "exit"
    /\ VariantPresent
    /\ LET base == Get(loaded, "rules", EmptyMap)
           over == Get(Variants(loaded)[variant], "rules", EmptyMap)
       IN  /\ \E k \in DOMAIN base \cap DOMAIN over : base[k] # over[k] /\ rules[k] = over[k]
           /\ \E k \in DOMAIN base \ DOMAIN over : rules[k] = base[k]

\* C4: with a variant of the profile, the settings after the settings step have
\* the keys of the base settings and of settings_merge; at a key of
\* settings_merge where base and override are both objects the result is the
\* base object with the override's entries written over it, entry by entry and
\* whole; at any other key of settings_merge it is the override value; a key of
\* the base alone keeps its value.
C4_SettingsMergeOneLevel ==
    (Done("settings") /\ VariantPresent) =>
        LET base == Get(loaded, "settings", EmptyMap)
            over == Get(Variants(loaded)[variant], "settings_merge", EmptyMap)
        IN  /\ DOMAIN settings = DOMAIN base \cup DOMAIN over
            /\ \A K \in DOMAIN over :
                    IF K \in DOMAIN base /\ IsDict(base[K]) /\ IsDict(over[K])
                    THEN /\ IsDict(settings[K])
                         /\ IsOverlay(settings[K].items, base[K].items, over[K].items)
                    ELSE settings[K] = over[K]
            /\ \A K \in DOMAIN base \ DOMAIN over : settings[K] = base[K]

\* a finished run where base and override hold an object at the same key, both
\* with an object inside under the same name, and the base object has another
\* entry
C4_Witness ==
    /\ pc = "exit"
    /\ VariantPresent
    /\ LET base == Get(loaded, "settings", EmptyMap)
           over == Get(Variants(loaded)[variant], "settings_merge", EmptyMap)
       IN  \E K \in DOMAIN base \cap DOMAIN over :
            /\ IsDict(base[K])
            /\ IsDict(over[K])
            /\ \E e \in DOMAIN base[K].items \cap DOMAIN over[K].items :
                    /\ IsDict(base[K].items[e])
                    /\ IsDict(over[K].items[e])
                    /\ settings[K].items[e] = over[K].items[e]
                    /\ base[K].items[e] # over[K].items[e]
            /\ DOMAIN base[K].items \ DOMAIN over[K].items # {}

\* C5: the merge leaves the loaded profile document as it was read: from the
\* load on, every field of the profile has the value it was loaded with.
C5_ProfileNotMutated ==
    (pc # "apply_profile" /\ out.msg # "profile_not_found") => profile = loaded

\* C10: no step of a dry run changes the target directory: it creates no
\* directory and leaves every artifact with the existence and content it had.
C10_DryRunWritesNothing ==
    [][args.dry_run => (fs' = fs /\ dir' = dir)]_vars

\* a finished dry run over a directory with an instructions file and no
\* .mcp.json, for a profile that declares servers, instructions and rules: the
\* run had writes, a backup and directories to make
C10_Witness ==
    /\ pc = "exit"
    /\ out.msg = "applied"
    /\ args.dry_run
    /\ Truthy(mcp_servers)
    /\ Truthy(claude_md)
    /\ fs.mcp_json = <<>>
    /\ fs.claude_md # <<>>
    /\ fs.claude_md_bak = <<>>
    /\ ".claude/rules" \notin fs.dirs
    /\ NewEntries(<<>>) # <<>>
    /\ fs.gitignore = <<>>

\* ------------------------------------------------------------------ properties of detect

Pair(r) == <<r.profile, r.variant>>

\* some marker of the rule matches some entry of the directory
RuleMatches(r, d) ==
    /\ d.exists
    /\ \E j \in 1..Len(r.markers) : \E p \in d.entries : PathMatch(r.markers[j], p)

MatchingRules(d) == {i \in 1..Len(DETECTION_RULES) : RuleMatches(DETECTION_RULES[i], d)}

\* the first rule of the table, among the matching ones, that produces the pair
FirstRule(pair, matching) ==
    CHOOSE i \in matching :
        /\ Pair(DETECTION_RULES[i]) = pair
        /\ \A j \in matching : Pair(DETECTION_RULES[j]) = pair => i <= j

\* C6: the sequence detect returns repeats no pair, holds exactly the pairs of
\* the rules with a matching marker, lists them in the order of the first rule
\* of the table producing each.  The three conditions fix the sequence from the
\* set of entries alone, so it is the same for every order in which the file
\* system lists them (listing ranges over all of these orders).
C6_DetectFollowsRuleTable ==
    pc = "exit" =>
        LET matching == MatchingRules(dir)
        IN  /\ \A i, j \in 1..Len(detected) : i # j => detected[i] # detected[j]
            /\ Range(detected) = {Pair(DETECTION_RULES[i]) : i \in matching}
            /\ \A i, j \in 1..Len(detected) :
                    i < j => FirstRule(detected[i], matching) < FirstRule(detected[j], matching)

\* two stacks detected in a directory listed in the opposite order, one of
\* them by a second marker of its rule
C6_Witness ==
    /\ pc = "exit"
    /\ Len(detected) >= 2
    /\ \E a, b \in 1..Len(listing) :
        /\ a < b
        /\ RuleMatches(DETECTION_RULES[FirstRule(detected[2], MatchingRules(dir))],
                       [dir EXCEPT !.entries = {listing[a]}])
        /\ RuleMatches(DETECTION_RULES[FirstRule(detected[1], MatchingRules(dir))],
                       [dir EXCEPT !.entries = {listing[b]}])
    /\ \E i \in MatchingRules(dir) :
            ~\E p \in dir.entries : PathMatch(DETECTION_RULES[i].markers[1], p)

\* C7 as stated: no two entries of the result have the same stack.
C7_OneEntryPerStack ==
    pc = "exit" =>
        \A i, j \in 1..Len(detected) : i # j => detected[i][1] # detected[j][1]

\* C7, amended: entries are distinct as (stack, variant) pairs, and two entries
\* have the same stack only as ("java", "maven") followed by ("java", "gradle").
C7_SameStackOnlyJavaVariants ==
    pc = "exit" =>
        \A i, j \in 1..Len(detected) :
            (i < j /\ detected[i][1] = detected[j][1]) =>
                /\ detected[i] = <<"java", "maven">>
                /\ detected[j] = <<"java", "gradle">>

\* a directory in which the Maven rule and the Gradle rule both match
C7_Witness ==
    /\ pc = "exit"
    /\ <<"java", "maven">> \in Range(detected)
    /\ <<"java", "gradle">> \in Range(detected)

\* pom.xml is there and no other entry matches a marker
OnlyPomMarker(d) ==
    /\ d.exists
    /\ File(<<"pom.xml">>) \in d.entries
    /\ \A p \in d.entries \ {File(<<"pom.xml">>)} :
            \A i \in 1..Len(DETECTION_RULES) :
                ~RuleMatches(DETECTION_RULES[i], [d EXCEPT !.entries = {p}])

\* C8 as stated: with pom.xml as the only marker file, detect returns
\* [("java", None)] and detect_variant("java") returns "maven".
C8_PomDetectsJavaNone ==
    (pc = "exit" /\ OnlyPomMarker(dir)) =>
        /\ detected = <<<<"java", None>>>>
        /\ detect_variant("java", dir, listing) = "maven"

\* C8, amended: with pom.xml as the only marker file, detect returns
\* [("java", "maven")] and detect_variant("java") returns "maven".
C8_PomDetectsJavaMaven ==
    (pc = "exit" /\ OnlyPomMarker(dir)) =>
        /\ detected = <<<<"java", "maven">>>>
        /\ detect_variant("java", dir, listing) = "maven"

\* detect has run on a directory that holds pom.xml beside a file that is no marker
C8_Witness ==
    /\ pc = "exit"
    /\ OnlyPomMarker(dir)
    /\ Cardinality(dir.entries) = 2
    /\ out.labels = <<<<"java", "maven">>>>

\* C9 as stated: on a directory that does not exist detect ends with a
\* NotFound message and a non-zero exit status.
C9_MissingDirectoryFails ==
    (pc = "exit" /\ ~dir.exists) => (exit_code # 0 /\ out.msg = "not_found")

\* C9, amended: on a directory that does not exist detect returns the empty
\* sequence, and cmd_detect prints the no-project message and returns, exit
\* status 0, as it does when no rule matches.
C9_MissingDirectoryIsNoProject ==
    (pc = "exit" /\ ~dir.exists) =>
        /\ detected = <<>>
        /\ out = [msg |-> "no_project", labels |-> <<>>, suggest |-> <<>>]
        /\ exit_code = 0

\* cmd_detect has run on a directory that does not exist
C9_Witness ==
    /\ pc = "exit"
    /\ ~dir.exists
    /\ dir = MissingDirectory

\* ------------------------------------------------------------------ properties of diff

\* C11: after an apply run, diff reports against the effective configuration
\* of that run (mcp_servers, rules, skills as merged with the variant): missing
\* is the declared names that are not in the directory, extra the servers of
\* .mcp.json that are not declared; so all the sets are empty when the
\* directory holds exactly the declared rules, skills and servers.
C11_DiffOfEffectiveConfig ==
    (pc = "diff_exit" /\ out.msg = "diff") =>
        LET on_disk == IF fs.mcp_json # <<>> THEN DOMAIN fs.mcp_json[1]["mcpServers"] ELSE {}
        IN  /\ fs.mcp_json # <<>> =>
                    /\ report.missing_mcp = DOMAIN mcp_servers \ on_disk
                    /\ report.extra_mcp = on_disk \ DOMAIN mcp_servers
            /\ report.missing_rules = DOMAIN rules \ DOMAIN fs.rule_files
            /\ report.missing_skills = DOMAIN skills \ fs.skill_dirs
            /\ (/\ fs.mcp_json # <<>>
                /\ on_disk = DOMAIN mcp_servers
                /\ DOMAIN fs.rule_files = DOMAIN rules
                /\ fs.skill_dirs = DOMAIN skills) =>
                    /\ report.missing_mcp = {}
                    /\ report.extra_mcp = {}
                    /\ report.missing_rules = {}
                    /\ report.missing_skills = {}

\* ------------------------------------------------------------------ properties of the backup

\* C12: in a run that is no dry run, the instructions step with a non-empty
\* effective text leaves in CLAUDE.md.bak the content CLAUDE.md had, when it
\* was there, and leaves the .bak file as it was, missing or not, when it was
\* not; CLAUDE.md then holds the effective text and its newline.  No other
\* step touches either file, so this is how the run ends.
C12_BackupBeforeOverwrite ==
    [][~args.dry_run =>
            IF pc = "claude_md" /\ Truthy(claude_md')
            THEN /\ fs.claude_md # <<>> => fs'.claude_md_bak = fs.claude_md
                 /\ fs.claude_md = <<>> => fs'.claude_md_bak = fs.claude_md_bak
                 /\ fs'.claude_md = <<claude_md' \o <<"\n">>>>
            ELSE /\ fs'.claude_md_bak = fs.claude_md_bak
                 /\ fs'.claude_md = fs.claude_md]_vars

\* a finished run that found a hand-written CLAUDE.md: the .bak file holds it
\* and CLAUDE.md holds the effective text
C12_Witness ==
    /\ pc = "exit"
    /\ out.msg = "applied"
    /\ ~args.dry_run
    /\ Truthy(claude_md)
    /\ fs.claude_md_bak = OldClaudeMd
    /\ fs.claude_md = <<claude_md \o <<"\n">>>>
    /\ fs.claude_md # fs.claude_md_bak

====
